---- MODULE Spec2Model ----
(***************************************************************************)
(* A state-machine model of the iControl repository:                       *)
(*   - the USB-gadget agent            (src/auto_ios_agent.py)             *)
(*   - the BLE HID test controller     (src/src/raspi_controller/test_hid.py) *)
(*   - the GATT sequencer              (src/src/raspi_controller/main.py)  *)
(*   - the Bluetooth keyboard emulator (src/bt_keyboard_emu.py)            *)
(* Each component has its own next-state relation and specification; the   *)
(* variables of the other components stay unchanged under it.              *)
(***************************************************************************)
EXTENDS Integers, Sequences, FiniteSets, TLC

VARIABLES
    \* ---- auto_ios_agent.py ----
    gpc,      \* position of main(): "start", "grab", "decide", "dispatch",
              \* "tap_down", "tap_lift", "key_down", "key_up", "exit"
    gexit,    \* how main() ended: "running", "done", "error", "sysexit"
    act,      \* the decision returned by decide() in this cycle
    targ,     \* the arguments (x, y) of the tap() call in progress
    todo,     \* tap() calls the current action still has to make
    text,     \* characters type_text() still has to send
    TOUCH,    \* reports written to /dev/hidg1, in order
    KBD,      \* reports written to /dev/hidg0, in order
    handles,  \* which of cap, KBD, TOUCH are open
    cyc,      \* loop iterations started
    mark,     \* lengths of the two streams when the current iteration started
    frame,    \* ok of the last cap.read() in grab()
    reply     \* kind of the last reply decide() received

gvars == <<gpc, gexit, act, targ, todo, text, TOUCH, KBD, handles, cyc, mark,
           frame, reply>>

VARIABLES
    \* ---- raspi_controller/test_hid.py ----
    bpc,      \* position of main(): "connect", "loop", "ended", "crashed"
    client,   \* HIDTestController.client is set
    pos,      \* the tracker (self.x, self.y)
    wire,     \* commands m:<dx>,<dy> written to the characteristic, in order
    call,     \* the last move call: its operation, arguments, writes, outcome
    keys      \* keys read by main() so far

bvars == <<bpc, client, pos, wire, call, keys>>

VARIABLES
    \* ---- bt_keyboard_emu.py: HIDDevice ----
    ctrl_sock,  \* "None" or "open"
    intr_sock,  \* "None" or "open"
    delivered,  \* reports the interrupt channel transmitted, in order
    last,       \* the last operation on the device and how it went
    dropped     \* a send failed or the peer dropped since the last connect

dvars == <<ctrl_sock, intr_sock, delivered, last, dropped>>

VARIABLES
    \* ---- raspi_controller/main.py ----
    spc,          \* position of main(): "connect", "capture", "decide",
                  \* "perform", "ended"
    sexit,        \* how main() ended: "running", "done", "no_action", "limit",
                  \* "not_connected", "crashed"
    step,         \* the loop variable i of for i in range(30)
    link,         \* client.is_connected
    sent,         \* commands written to the characteristic in this iteration
    image,        \* what this iteration handed to the producer
    action_data,  \* the value get_next_action_from_gemini returned
    outs,         \* the outcomes of the attempts of that call, in order
    calls         \* how often that call invoked the model

svars == <<spc, sexit, step, link, sent, image, action_data, outs, calls>>

VARIABLES
    \* ---- raspi_controller/main.py: find_iphone_screen and its caller ----
    lpc,            \* position in the step: "capture", "locate", "handoff",
                    \* "decide"
    lframe,         \* shape of the captured frame <<width, height>>, or None
    lcontours,      \* what cv2.findContours finds in it, in order
    cropped_frame,  \* first value find_iphone_screen returned: the pixel
                    \* rectangle <<x, y, w, h>> of the crop, or None
    lregion,        \* second value find_iphone_screen returned
    pil_image       \* pixel rectangle of the image handed to the producer

lvars == <<lpc, lframe, lcontours, cropped_frame, lregion, pil_image>>

VARIABLES
    \* ---- Coordinate Mapper ----
    mpc,    \* "idle", "pixel", "dest"
    mreq,   \* the request: normalized point, region, destination extents
    mpx,    \* the region pixel of the point
    mdest   \* the point in destination units

mvars == <<mpc, mreq, mpx, mdest>>

vars == <<gvars, bvars, dvars, svars, lvars, mvars>>

(***************************************************************************)
(* Bounds of the model.                                                    *)
(***************************************************************************)
MaxCycles == 2
MaxKeys == 3
MaxReports == 4
MaxContours == 2

(***************************************************************************)
(* Gadget HID helpers (auto_ios_agent.py).  A float coordinate is the      *)
(* rational <<n, d>> with d > 0.                                           *)
(***************************************************************************)
TouchMax == 32767
TouchMask == 32768
steps == 15

Letters == <<"a","b","c","d","e","f","g","h","i","j","k","l","m",
             "n","o","p","q","r","s","t","u","v","w","x","y","z">>
Capitals == <<"A","B","C","D","E","F","G","H","I","J","K","L","M",
              "N","O","P","Q","R","S","T","U","V","W","X","Y","Z">>
Digits == <<"0","1","2","3","4","5","6","7","8","9">>

\* str.lower() on one character
Lower(ch) ==
    IF \E i \in 1..26 : Capitals[i] = ch
    THEN Letters[CHOOSE i \in 1..26 : Capitals[i] = ch]
    ELSE ch

\* KEY_MAP with the letters only
KEY_MAP_LettersOnly ==
    [c \in {Letters[i] : i \in 1..26} |->
        4 + (CHOOSE i \in 1..26 : Letters[i] = c) - 1]

\* KEY_MAP: 0x04+i for letters, 0x1E+i for str(i), and the punctuation set
KEY_MAP ==
    [c \in {Letters[i] : i \in 1..26} \cup {Digits[i] : i \in 1..10}
           \cup {" ", "\n", ",", ".", "-", "/"} |->
        IF \E i \in 1..26 : Letters[i] = c
        THEN 4 + (CHOOSE i \in 1..26 : Letters[i] = c) - 1
        ELSE IF \E i \in 1..10 : Digits[i] = c
        THEN 30 + (CHOOSE i \in 1..10 : Digits[i] = c) - 1
        ELSE CASE c = " "  -> 44
               [] c = "\n" -> 40
               [] c = ","  -> 54
               [] c = "."  -> 55
               [] c = "-"  -> 45
               [] c = "/"  -> 56]

\* KEY_MAP.get(ch.lower()): 0 stands for None (no keycode is 0)
KeyCodeOf(ch) ==
    IF Lower(ch) \in DOMAIN KEY_MAP THEN KEY_MAP[Lower(ch)] ELSE 0

PressReport(kc) == [kind |-> "press", bytes |-> <<0, 0, kc, 0, 0, 0, 0, 0>>]
ReleaseReport == [kind |-> "release", bytes |-> <<0, 0, 0, 0, 0, 0, 0, 0>>]

\* int(): truncation toward zero of n/d
Trunc(n, d) == IF n >= 0 THEN n \div d ELSE -((-n) \div d)

\* Scale with rounding to the nearest integer in place of int()
ScaleRounded(x) == ((2 * x[1] * TouchMax + x[2]) \div (2 * x[2])) % TouchMask

\* int(x*32767) & 0x7FFF
Scale(x) == Trunc(x[1] * TouchMax, x[2]) % TouchMask

\* v.to_bytes(2, 'little')
LE16(v) == <<v % 256, v \div 256>>

\* the two reports tap() writes
DownReport(x, y) == [kind |-> "down", bytes |-> LE16(Scale(x)) \o LE16(Scale(y))]
LiftReport == [kind |-> "lift", bytes |-> <<0, 0, 0, 0>>]

\* 0.5 + d/steps, the coordinate swipe() passes to every tap()
SwipeCoord(d) == <<d[2] * steps + 2 * d[1], 2 * d[2] * steps>>

\* number of tap() calls swipe() makes
SwipeTaps == steps

(***************************************************************************)
(* Inputs: the replies of the decision producer.                           *)
(***************************************************************************)
Zero == <<0, 1>>
Coords == {<<-1, 2>>, <<0, 1>>, <<1, 2>>, <<1, 1>>, <<3, 2>>}
Deltas == {<<-1, 4>>, <<0, 1>>, <<1, 4>>}
Texts == {<< >>, <<"a", "a">>, <<"H", "!", "1">>}

Json(tp, x, y, dx, dy, tx, hasKeys) ==
    [kind |-> "json", type |-> tp, x |-> x, y |-> y, dx |-> dx, dy |-> dy,
     text |-> tx, keys |-> hasKeys]

NoAct == Json("", Zero, Zero, Zero, Zero, << >>, TRUE)

GadgetReplies ==
    {Json("tap", x, y, Zero, Zero, << >>, TRUE) : x \in Coords, y \in Coords}
    \cup {Json("doubleTap", x, y, Zero, Zero, << >>, TRUE) :
            x \in Coords, y \in {<<1, 2>>, <<3, 2>>}}
    \cup {Json("swipe", Zero, Zero, dx, dy, << >>, TRUE) : dx \in Deltas, dy \in Deltas}
    \cup {Json("type", Zero, Zero, Zero, Zero, tx, TRUE) : tx \in Texts}
    \cup {Json(tp, Zero, Zero, Zero, Zero, << >>, TRUE) : tp \in {"none", "done", "scroll"}}
    \cup {Json("tap", Zero, Zero, Zero, Zero, << >>, FALSE)}
    \cup {[NoAct EXCEPT !.kind = "malformed"], [NoAct EXCEPT !.kind = "api_error"]}

(***************************************************************************)
(* auto_ios_agent.py: main() and the helpers it calls.                     *)
(***************************************************************************)
InitGadget ==
    /\ gpc = "start"
    /\ gexit = "running"
    /\ act = NoAct
    /\ targ = <<Zero, Zero>>
    /\ todo = 0
    /\ text = << >>
    /\ TOUCH = << >>
    /\ KBD = << >>
    /\ handles = [cap |-> FALSE, kbd |-> TRUE, touch |-> TRUE]
    /\ cyc = 0
    /\ mark = [touch |-> 0, kbd |-> 0]
    /\ frame = TRUE
    /\ reply = "json"

\* the finally clause of main(): cap.release(); KBD.close(); TOUCH.close()
Finally(how) ==
    /\ gpc' = "exit"
    /\ gexit' = how
    /\ handles' = [cap |-> FALSE, kbd |-> FALSE, touch |-> FALSE]

\* sys.exit() before the try block: nothing is released
Startup ==
    /\ gpc = "start"
    /\ \E keySet \in BOOLEAN, opened \in BOOLEAN :
        IF ~keySet
        THEN /\ gpc' = "exit" /\ gexit' = "sysexit" /\ UNCHANGED handles
        ELSE IF ~opened
        THEN /\ gpc' = "exit" /\ gexit' = "sysexit"
             /\ handles' = [handles EXCEPT !.cap = FALSE]
        ELSE /\ gpc' = "grab" /\ gexit' = gexit
             /\ handles' = [handles EXCEPT !.cap = TRUE]
    /\ UNCHANGED <<act, targ, todo, text, TOUCH, KBD, cyc, mark, frame, reply>>

\* grab(cap): raises RuntimeError("No frame") when cap.read() gives no frame
Grab ==
    /\ gpc = "grab"
    /\ cyc < MaxCycles
    /\ \E ok \in BOOLEAN :
        /\ frame' = ok
        /\ IF ok
           THEN /\ gpc' = "decide" /\ UNCHANGED <<gexit, handles>>
           ELSE Finally("error")
    /\ cyc' = cyc + 1
    /\ mark' = [touch |-> Len(TOUCH), kbd |-> Len(KBD)]
    /\ UNCHANGED <<act, targ, todo, text, TOUCH, KBD, reply>>

\* decide(): json.loads, then _json_from, which raises ValueError when the
\* text holds no {...}; an API error propagates as well
Decide ==
    /\ gpc = "decide"
    /\ \E r \in GadgetReplies :
        /\ reply' = r.kind
        /\ IF r.kind = "json"
           THEN /\ act' = r /\ gpc' = "dispatch" /\ UNCHANGED <<gexit, handles>>
           ELSE /\ act' = act /\ Finally("error")
    /\ UNCHANGED <<targ, todo, text, TOUCH, KBD, cyc, mark, frame>>

\* if tp=="done": break
Done ==
    /\ gpc = "dispatch" /\ act.type = "done"
    /\ Finally("done")
    /\ UNCHANGED <<act, targ, todo, text, TOUCH, KBD, cyc, mark, frame, reply>>

\* NoneAct without its continue: "none" falls into the tap branch
NoneActFallsThrough ==
    /\ gpc = "dispatch" /\ act.type = "none"
    /\ targ' = <<act.x, act.y>>
    /\ todo' = 1
    /\ gpc' = "tap_down"
    /\ UNCHANGED <<gexit, act, text, TOUCH, KBD, handles, cyc, mark, frame, reply>>

\* if tp=="none": time.sleep(args.interval); continue
NoneAct ==
    /\ gpc = "dispatch" /\ act.type = "none"
    /\ gpc' = "grab"
    /\ UNCHANGED <<gexit, act, targ, todo, text, TOUCH, KBD, handles, cyc, mark, frame, reply>>

\* StartTap with a single tap() for doubleTap as well
StartTapOnce ==
    /\ gpc = "dispatch" /\ act.type \in {"tap", "doubleTap"}
    /\ IF act.keys
       THEN /\ targ' = <<act.x, act.y>>
            /\ todo' = 1
            /\ gpc' = "tap_down"
            /\ UNCHANGED <<gexit, handles>>
       ELSE /\ Finally("error") /\ UNCHANGED <<targ, todo>>
    /\ UNCHANGED <<act, text, TOUCH, KBD, cyc, mark, frame, reply>>

\* tap / doubleTap: act["x"] raises KeyError when the key is missing
StartTap ==
    /\ gpc = "dispatch" /\ act.type \in {"tap", "doubleTap"}
    /\ IF act.keys
       THEN /\ targ' = <<act.x, act.y>>
            /\ todo' = IF act.type = "doubleTap" THEN 2 ELSE 1
            /\ gpc' = "tap_down"
            /\ UNCHANGED <<gexit, handles>>
       ELSE /\ Finally("error") /\ UNCHANGED <<targ, todo>>
    /\ UNCHANGED <<act, text, TOUCH, KBD, cyc, mark, frame, reply>>

\* swipe(dx, dy): for _ in range(steps): tap(0.5+dx/steps, 0.5+dy/steps)
StartSwipe ==
    /\ gpc = "dispatch" /\ act.type = "swipe"
    /\ targ' = <<SwipeCoord(act.dx), SwipeCoord(act.dy)>>
    /\ todo' = SwipeTaps
    /\ gpc' = "tap_down"
    /\ UNCHANGED <<gexit, act, text, TOUCH, KBD, handles, cyc, mark, frame, reply>>

\* tap(), first write: the touch-down report; a failing write raises OSError
TapDown ==
    /\ gpc = "tap_down"
    /\ \E ok \in BOOLEAN :
        IF ok
        THEN /\ TOUCH' = Append(TOUCH, DownReport(targ[1], targ[2]))
             /\ gpc' = "tap_lift"
             /\ UNCHANGED <<gexit, handles>>
        ELSE /\ TOUCH' = TOUCH /\ Finally("error")
    /\ UNCHANGED <<act, targ, todo, text, KBD, cyc, mark, frame, reply>>

\* TapLift with the lift write left out
TapLiftSkipsWrite ==
    /\ gpc = "tap_lift"
    /\ todo' = todo - 1
    /\ gpc' = IF todo > 1 THEN "tap_down" ELSE "grab"
    /\ UNCHANGED <<gexit, handles, TOUCH, act, targ, text, KBD, cyc, mark, frame, reply>>

\* tap(), second write: the lift; then the caller's loop goes on or ends
TapLift ==
    /\ gpc = "tap_lift"
    /\ \E ok \in BOOLEAN :
        IF ok
        THEN /\ TOUCH' = Append(TOUCH, LiftReport)
             /\ todo' = todo - 1
             /\ gpc' = IF todo > 1 THEN "tap_down" ELSE "grab"
             /\ UNCHANGED <<gexit, handles>>
        ELSE /\ TOUCH' = TOUCH /\ todo' = todo /\ Finally("error")
    /\ UNCHANGED <<act, targ, text, KBD, cyc, mark, frame, reply>>

\* type_text(act.get("text","")): the loop over the characters starts
StartType ==
    /\ gpc = "dispatch" /\ act.type = "type"
    /\ text' = act.text
    /\ gpc' = IF act.text = << >> THEN "grab" ELSE "key_down"
    /\ UNCHANGED <<gexit, act, targ, todo, TOUCH, KBD, handles, cyc, mark, frame, reply>>

\* send_key(ch): an unmapped character returns at once; else the press report
KeyDown ==
    /\ gpc = "key_down"
    /\ IF KeyCodeOf(Head(text)) = 0
       THEN /\ text' = Tail(text)
            /\ gpc' = IF Tail(text) = << >> THEN "grab" ELSE "key_down"
            /\ UNCHANGED <<KBD, gexit, handles>>
       ELSE \E ok \in BOOLEAN :
            IF ok
            THEN /\ KBD' = Append(KBD, PressReport(KeyCodeOf(Head(text))))
                 /\ gpc' = "key_up"
                 /\ UNCHANGED <<text, gexit, handles>>
            ELSE /\ Finally("error") /\ UNCHANGED <<KBD, text>>
    /\ UNCHANGED <<act, targ, todo, TOUCH, cyc, mark, frame, reply>>

\* KeyUp with the release write left out
KeyUpSkipsWrite ==
    /\ gpc = "key_up"
    /\ text' = Tail(text)
    /\ gpc' = IF Tail(text) = << >> THEN "grab" ELSE "key_down"
    /\ UNCHANGED <<KBD, gexit, handles, act, targ, todo, TOUCH, cyc, mark, frame, reply>>

\* send_key(ch), second write: the all-zero release report
KeyUp ==
    /\ gpc = "key_up"
    /\ \E ok \in BOOLEAN :
        IF ok
        THEN /\ KBD' = Append(KBD, ReleaseReport)
             /\ text' = Tail(text)
             /\ gpc' = IF Tail(text) = << >> THEN "grab" ELSE "key_down"
             /\ UNCHANGED <<gexit, handles>>
        ELSE /\ Finally("error") /\ UNCHANGED <<KBD, text>>
    /\ UNCHANGED <<act, targ, todo, TOUCH, cyc, mark, frame, reply>>

\* any other type: no branch of the if/elif chain is taken
OtherAct ==
    /\ gpc = "dispatch"
    /\ act.type \notin {"done", "none", "tap", "doubleTap", "swipe", "type"}
    /\ gpc' = "grab"
    /\ UNCHANGED <<gexit, act, targ, todo, text, TOUCH, KBD, handles, cyc, mark, frame, reply>>

NextGadget ==
    \/ (Startup /\ UNCHANGED <<bvars, dvars, svars, lvars, mvars>>)
    \/ (Grab /\ UNCHANGED <<bvars, dvars, svars, lvars, mvars>>)
    \/ (Decide /\ UNCHANGED <<bvars, dvars, svars, lvars, mvars>>)
    \/ (Done /\ UNCHANGED <<bvars, dvars, svars, lvars, mvars>>)
    \/ (NoneAct /\ UNCHANGED <<bvars, dvars, svars, lvars, mvars>>)
    \/ (StartTap /\ UNCHANGED <<bvars, dvars, svars, lvars, mvars>>)
    \/ (StartSwipe /\ UNCHANGED <<bvars, dvars, svars, lvars, mvars>>)
    \/ (TapDown /\ UNCHANGED <<bvars, dvars, svars, lvars, mvars>>)
    \/ (TapLift /\ UNCHANGED <<bvars, dvars, svars, lvars, mvars>>)
    \/ (StartType /\ UNCHANGED <<bvars, dvars, svars, lvars, mvars>>)
    \/ (KeyDown /\ UNCHANGED <<bvars, dvars, svars, lvars, mvars>>)
    \/ (KeyUp /\ UNCHANGED <<bvars, dvars, svars, lvars, mvars>>)
    \/ (OtherAct /\ UNCHANGED <<bvars, dvars, svars, lvars, mvars>>)

(***************************************************************************)
(* raspi_controller/test_hid.py: HIDTestController and main().             *)
(***************************************************************************)
MOVE_STEP == 50
ResetDistance == 32767

\* the largest per-report displacement of the relative-mouse transport
MAX_MOVE == 127

\* coordinates typed at the 'p' prompt
Targets == {<<0, 0>>, <<100, 50>>, <<280, 550>>, <<1920, 1080>>}

NoCall == [op |-> "none", args |-> <<0, 0>>, wrote |-> << >>, ret |-> "returned"]

InitBridge ==
    /\ bpc = "connect"
    /\ client = FALSE
    /\ pos = <<0, 0>>
    /\ wire = << >>
    /\ call = NoCall
    /\ keys = 0

\* the commands move_relative(dx, dy) hands to _send_command, in order
RelativeCommands(dx, dy) == << <<dx, dy>> >>

\* move_to_absolute without the origin reset
AbsoluteCommandsNoReset(x, y) == << <<x, y>> >>

\* the commands move_to_absolute(x, y) hands to _send_command, in order
AbsoluteCommands(x, y) == << <<-ResetDistance, -ResetDistance>>, <<x, y>> >>

\* _send_command for each of cmds in turn: without a client nothing is
\* written; the write after the first f raises when f < Len(cmds)
Written(cmds, f) == IF client THEN SubSeq(cmds, 1, f) ELSE << >>
Raised(cmds, f) == client /\ f < Len(cmds)

\* connect(): device not found -> False and main() returns; client.connect()
\* may raise, which ends main() with the exception
Connect ==
    /\ bpc = "connect"
    /\ \E found \in BOOLEAN, ok \in BOOLEAN :
        IF ~found
        THEN /\ bpc' = "ended" /\ client' = client
        ELSE /\ client' = TRUE
             /\ bpc' = IF ok THEN "loop" ELSE "crashed"
    /\ UNCHANGED <<pos, wire, call, keys>>

\* keys w, s, a, d: move_relative(dx, dy) updates the tracker, then sends
MoveRelative ==
    /\ bpc = "loop" /\ keys < MaxKeys
    /\ \E d \in {<<0, -MOVE_STEP>>, <<0, MOVE_STEP>>, <<-MOVE_STEP, 0>>, <<MOVE_STEP, 0>>} :
       \E f \in 0..Len(RelativeCommands(d[1], d[2])) :
        LET cmds == RelativeCommands(d[1], d[2]) IN
        /\ pos' = <<pos[1] + d[1], pos[2] + d[2]>>
        /\ wire' = wire \o Written(cmds, f)
        /\ call' = [op |-> "move_relative", args |-> d, wrote |-> Written(cmds, f),
                    ret |-> IF Raised(cmds, f) THEN "raised" ELSE "returned"]
        /\ bpc' = IF Raised(cmds, f) THEN "crashed" ELSE "loop"
    /\ keys' = keys + 1
    /\ UNCHANGED client

\* key p with well-formed input: move_to_absolute(x, y) sends, then sets the
\* tracker
MoveToAbsolute ==
    /\ bpc = "loop" /\ keys < MaxKeys
    /\ \E t \in Targets :
       \E f \in 0..Len(AbsoluteCommands(t[1], t[2])) :
        LET cmds == AbsoluteCommands(t[1], t[2]) IN
        /\ wire' = wire \o Written(cmds, f)
        /\ call' = [op |-> "move_to_absolute", args |-> t, wrote |-> Written(cmds, f),
                    ret |-> IF Raised(cmds, f) THEN "raised" ELSE "returned"]
        /\ pos' = IF Raised(cmds, f) THEN pos ELSE t
        /\ bpc' = IF Raised(cmds, f) THEN "crashed" ELSE "loop"
    /\ keys' = keys + 1
    /\ UNCHANGED client

\* key p with input that does not parse (ValueError is caught), or any key
\* other than w, s, a, d, p, q
IgnoredKey ==
    /\ bpc = "loop" /\ keys < MaxKeys
    /\ keys' = keys + 1
    /\ UNCHANGED <<bpc, client, pos, wire, call>>

\* key q: break, then controller.disconnect()
Quit ==
    /\ bpc = "loop" /\ keys < MaxKeys
    /\ keys' = keys + 1
    /\ bpc' = "ended"
    /\ UNCHANGED <<client, pos, wire, call>>

NextBridge ==
    \/ (Connect /\ UNCHANGED <<gvars, dvars, svars, lvars, mvars>>)
    \/ (MoveRelative /\ UNCHANGED <<gvars, dvars, svars, lvars, mvars>>)
    \/ (MoveToAbsolute /\ UNCHANGED <<gvars, dvars, svars, lvars, mvars>>)
    \/ (IgnoredKey /\ UNCHANGED <<gvars, dvars, svars, lvars, mvars>>)
    \/ (Quit /\ UNCHANGED <<gvars, dvars, svars, lvars, mvars>>)

(***************************************************************************)
(* bt_keyboard_emu.py: HIDDevice.                                          *)
(***************************************************************************)
\* KEYCODE: a-z and A-Z -> 0x04.., '1'..'9' -> 0x1E.., '0' -> 0x27, ' ' -> 0x2C
KEYCODE ==
    [c \in {Letters[i] : i \in 1..26} \cup {Capitals[i] : i \in 1..26}
           \cup {Digits[i] : i \in 1..10} \cup {" "} |->
        IF \E i \in 1..26 : Letters[i] = c
        THEN 4 + (CHOOSE i \in 1..26 : Letters[i] = c) - 1
        ELSE IF \E i \in 1..26 : Capitals[i] = c
        THEN 4 + (CHOOSE i \in 1..26 : Capitals[i] = c) - 1
        ELSE IF c = "0" THEN 39
        ELSE IF \E i \in 2..10 : Digits[i] = c
        THEN 30 + (CHOOSE i \in 2..10 : Digits[i] = c) - 2
        ELSE 44]

\* MODIFIER.get(char, 0x00): 0x02 for capitals
ModifierOf(ch) == IF \E i \in 1..26 : Capitals[i] = ch THEN 2 ELSE 0

\* send_keypress(modifier, key): the press report, then the release report
KeypressReports(modifier, key) ==
    << <<161, 1, modifier, 0, key, 0, 0, 0, 0, 0>>,
       <<161, 1, 0, 0, 0, 0, 0, 0, 0, 0>> >>

\* send_string(message): the reports handed to send_hid_report, in order;
\* characters without a keycode are skipped
RECURSIVE StringReports(_)
StringReports(message) ==
    IF message = << >> THEN << >>
    ELSE (IF Head(message) \in DOMAIN KEYCODE
          THEN KeypressReports(ModifierOf(Head(message)), KEYCODE[Head(message)])
          ELSE << >>) \o StringReports(Tail(message))

Messages == {<<"a">>, <<"H", "i">>, <<"!", "0">>}

InitDevice ==
    /\ ctrl_sock = "None"
    /\ intr_sock = "None"
    /\ delivered = << >>
    /\ last = [op |-> "init", result |-> "ok"]
    /\ dropped = FALSE

\* disconnect() that forgets the interrupt socket
AfterDisconnectKeepsIntr(c, i) == [ctrl |-> "None", intr |-> i]

\* disconnect(): each socket that is set is closed and set to None
AfterDisconnect(c, i) ==
    [ctrl |-> IF c # "None" THEN "None" ELSE c,
     intr |-> IF i # "None" THEN "None" ELSE i]

Disconnect ==
    /\ ctrl_sock' = AfterDisconnect(ctrl_sock, intr_sock).ctrl
    /\ intr_sock' = AfterDisconnect(ctrl_sock, intr_sock).intr

\* the handler of connect() without its disconnect() call, after
\* connect_l2cap(P_INTR) raised
HalfOpenKept ==
    /\ ctrl_sock' = "open"
    /\ intr_sock' = intr_sock

\* disconnect() after connect_l2cap(P_INTR) raised: ctrl_sock was just set
DisconnectHalfOpen ==
    /\ ctrl_sock' = AfterDisconnect("open", intr_sock).ctrl
    /\ intr_sock' = AfterDisconnect("open", intr_sock).intr

\* connect(): both connect_l2cap calls succeed, or one raises DBusException
\* and the handler calls disconnect()
DevConnect ==
    /\ Len(delivered) < MaxReports
    /\ \E outcome \in {"ok", "ctrl_fails", "intr_fails"} :
        /\ CASE outcome = "ok" ->
                  /\ ctrl_sock' = "open" /\ intr_sock' = "open" /\ dropped' = FALSE
             [] outcome = "ctrl_fails" -> Disconnect /\ dropped' = dropped
             [] outcome = "intr_fails" -> DisconnectHalfOpen /\ dropped' = dropped
        /\ last' = [op |-> "connect", result |-> outcome]
    /\ UNCHANGED delivered

\* property_changed(): a Connected property that became false disconnects
PropertyChanged ==
    /\ Len(delivered) < MaxReports
    /\ \E present \in BOOLEAN, value \in BOOLEAN :
        IF present /\ ~value
        THEN /\ Disconnect /\ dropped' = TRUE
             /\ last' = [op |-> "property_changed", result |-> "peer_dropped"]
        ELSE /\ UNCHANGED <<ctrl_sock, intr_sock, dropped>>
             /\ last' = [op |-> "property_changed", result |-> "ignored"]
    /\ UNCHANGED delivered

\* send_hid_report for each of reports in turn: the first f are sent; when
\* f < Len(reports) the next send raises and disconnect() is called, after
\* which the remaining calls find no interrupt socket
SendReports(op, reports, f) ==
    IF intr_sock = "None"
    THEN /\ f = 0
         /\ last' = [op |-> op, result |-> "not_connected"]
         /\ UNCHANGED <<ctrl_sock, intr_sock, delivered, dropped>>
    ELSE /\ delivered' = delivered \o SubSeq(reports, 1, f)
         /\ IF f < Len(reports)
            THEN /\ Disconnect /\ dropped' = TRUE
                 /\ last' = [op |-> op, result |-> "send_failed"]
            ELSE /\ UNCHANGED <<ctrl_sock, intr_sock, dropped>>
                 /\ last' = [op |-> op, result |-> "sent"]

\* send_hid_report(report)
SendHidReport ==
    /\ Len(delivered) < MaxReports
    /\ \E key \in {0, 4} : \E f \in 0..1 :
        SendReports("send_hid_report", <<KeypressReports(0, key)[1]>>, f)

\* send_keypress(modifier, key)
SendKeypress ==
    /\ Len(delivered) < MaxReports
    /\ \E m \in {0, 2}, key \in {4, 30} : \E f \in 0..2 :
        SendReports("send_keypress", KeypressReports(m, key), f)

\* send_string(message), also as the timer's send_test_message
SendString ==
    /\ Len(delivered) < MaxReports
    /\ \E message \in Messages : \E f \in 0..Len(StringReports(message)) :
        SendReports("send_string", StringReports(message), f)

NextDevice ==
    \/ (DevConnect /\ UNCHANGED <<gvars, bvars, svars, lvars, mvars>>)
    \/ (PropertyChanged /\ UNCHANGED <<gvars, bvars, svars, lvars, mvars>>)
    \/ (SendHidReport /\ UNCHANGED <<gvars, bvars, svars, lvars, mvars>>)
    \/ (SendKeypress /\ UNCHANGED <<gvars, bvars, svars, lvars, mvars>>)
    \/ (SendString /\ UNCHANGED <<gvars, bvars, svars, lvars, mvars>>)

(***************************************************************************)
(* raspi_controller/main.py: the GATT sequencer.                           *)
(***************************************************************************)
retry_count == 3
StepLimit == 30

KEY_RIGHT_ARROW == 79
KEY_LEFT_ARROW == 80
KEY_DOWN_ARROW == 81
KEY_UP_ARROW == 82
KEY_ESC == 41
KEY_RETURN == 40
KEY_HOME == 74
KEY_END == 77

\* a JSON object of the producer: has_action is '"action" in action_json'
ActionJson(has, a, t, secs) ==
    [has_action |-> has, action |-> a, text |-> t, seconds |-> secs]

NoJson == ActionJson(FALSE, "", "", 0)

\* {"action": "wait", "params": {"seconds": 2}}
DefaultAction == ActionJson(TRUE, "wait", "", 2)

\* what one attempt of the retry loop can meet
Outcomes ==
    {[kind |-> k, json |-> NoJson] : k \in {"net_exception", "unparseable", "no_action"}}
    \cup {[kind |-> "valid", json |-> j] :
            j \in {ActionJson(TRUE, "next", "", 0), ActionJson(TRUE, "type", "hi", 0),
                   ActionJson(TRUE, "type", "", 0), ActionJson(TRUE, "wait", "", 3),
                   ActionJson(TRUE, "done", "", 0), ActionJson(TRUE, "fly", "", 0)}}

\* the retry loop of get_next_action_from_gemini from attempt k on:
\* the value returned and the number of model invocations
\* the retry loop without the return on a valid reply: every attempt is
\* made and the last reply decides
RECURSIVE AttemptsToTheEnd(_, _)
AttemptsToTheEnd(o, k) ==
    IF k >= retry_count
    THEN [ret |-> DefaultAction, calls |-> k]
    ELSE IF o[k + 1].kind \in {"valid", "no_action"} /\ ~(k < retry_count - 1)
    THEN [ret |-> o[k + 1].json, calls |-> k + 1]
    ELSE AttemptsToTheEnd(o, k + 1)

RECURSIVE Attempts(_, _)
Attempts(o, k) ==
    IF k >= retry_count
    THEN [ret |-> DefaultAction, calls |-> k]
    ELSE IF o[k + 1].kind = "valid"
    THEN [ret |-> o[k + 1].json, calls |-> k + 1]
    ELSE IF o[k + 1].kind = "no_action" /\ ~(k < retry_count - 1)
    THEN [ret |-> o[k + 1].json, calls |-> k + 1]
    ELSE Attempts(o, k + 1)

get_next_action_from_gemini(o) == Attempts(o, 0)

\* the outcome sequences of one call: attempts the loop never makes are
\* left at one fixed value
OutcomeRuns ==
    {o \in [1..retry_count -> Outcomes] :
        \A k \in (get_next_action_from_gemini(o).calls + 1)..retry_count :
            o[k] = [kind |-> "net_exception", json |-> NoJson]}

Cmd(c, a) == [cmd |-> c, arg |-> a]

\* perform_voiceover_action: the commands handed to send_command_to_esp32
CommandsOf(action, t) ==
    CASE action = "next" -> <<Cmd("ko_special", KEY_RIGHT_ARROW)>>
      [] action = "previous" -> <<Cmd("ko_special", KEY_LEFT_ARROW)>>
      [] action = "activate" -> <<Cmd("ko", " ")>>
      [] action = "home" -> <<Cmd("ko", "h")>>
      [] action = "back" -> <<Cmd("kh", KEY_ESC)>>
      [] action = "scroll_up" -> <<Cmd("ko_special", KEY_UP_ARROW)>>
      [] action = "scroll_down" -> <<Cmd("ko_special", KEY_DOWN_ARROW)>>
      [] action = "first_item" -> <<Cmd("ko_special", KEY_HOME)>>
      [] action = "last_item" -> <<Cmd("ko_special", KEY_END)>>
      [] action = "rotor_next" -> <<Cmd("vo_rotor", "next")>>
      [] action = "rotor_previous" -> <<Cmd("vo_rotor", "previous")>>
      [] action = "status_bar" -> <<Cmd("ko", "m")>>
      [] action = "notification_center" -> <<Cmd("ko", "n")>>
      [] action = "control_center" -> <<Cmd("ko", "c")>>
      [] action = "item_chooser" -> <<Cmd("ko", "i")>>
      [] action = "magic_tap" -> <<Cmd("ko", "z")>>
      [] action = "type" /\ t # "" -> <<Cmd("ko", " "), Cmd("k", t), Cmd("kh", KEY_RETURN)>>
      [] action = "ping" -> <<Cmd("ping", "")>>
      [] OTHER -> << >>

\* send_command_to_esp32 for each of cmds: a command is written when the
\* client is connected and its write does not raise (ok[i]); a write that
\* raises is caught and logged
RECURSIVE Delivered(_, _)
Delivered(cmds, ok) ==
    IF cmds = << >> THEN << >>
    ELSE (IF link /\ Head(ok) THEN <<Head(cmds)>> ELSE << >>)
         \o Delivered(Tail(cmds), Tail(ok))

Masks(n) == [1..n -> BOOLEAN]

InitSeq ==
    /\ spc = "connect"
    /\ sexit = "running"
    /\ step = 0
    /\ link = FALSE
    /\ sent = << >>
    /\ image = "none"
    /\ action_data = NoJson
    /\ outs = << >>
    /\ calls = 0

\* SeqConnect that enters the loop whether or not the client is connected
SeqConnectIgnoresFailure ==
    /\ spc = "connect"
    /\ \E r \in {"ok", "raises", "not_connected"}, ok \in Masks(1) :
        /\ link' = (r = "ok") /\ spc' = "capture" /\ sexit' = sexit
        /\ sent' = IF r = "ok" /\ ok[1] THEN <<Cmd("ping", "")>> ELSE << >>
    /\ UNCHANGED <<step, image, action_data, outs, calls>>

\* async with BleakClient(...): the connect raises, or the client reports
\* not connected, or the session starts with a ping
SeqConnect ==
    /\ spc = "connect"
    /\ \E r \in {"ok", "raises", "not_connected"}, ok \in Masks(1) :
        CASE r = "ok" ->
               /\ link' = TRUE /\ spc' = "capture" /\ sexit' = sexit
               /\ sent' = IF ok[1] THEN <<Cmd("ping", "")>> ELSE << >>
          [] r = "raises" ->
               /\ spc' = "ended" /\ sexit' = "crashed" /\ UNCHANGED <<link, sent>>
          [] r = "not_connected" ->
               /\ spc' = "ended" /\ sexit' = "not_connected" /\ UNCHANGED <<link, sent>>
    /\ UNCHANGED <<step, image, action_data, outs, calls>>

\* step 1: capture_frame_from_device() gives a frame, or None (skip the
\* step), or init_camera() raises IOError; find_iphone_screen() gives the
\* cropped screen or None (the full frame is used)
SeqCapture ==
    /\ spc = "capture" /\ step < StepLimit
    /\ sent' = << >>
    /\ \E r \in {"cropped", "full", "none", "ioerror"} :
        /\ image' = r
        /\ CASE r \in {"cropped", "full"} ->
                  /\ spc' = "decide" /\ UNCHANGED <<step, sexit>>
             [] r = "none" ->
                  /\ spc' = "capture" /\ step' = step + 1 /\ sexit' = sexit
             [] r = "ioerror" ->
                  /\ spc' = "ended" /\ sexit' = "crashed" /\ step' = step
    /\ UNCHANGED <<link, action_data, outs, calls>>

\* the else clause of the for loop: "Reached maximum step limit."
SeqLimit ==
    /\ spc = "capture" /\ step = StepLimit
    /\ spc' = "ended" /\ sexit' = "limit"
    /\ UNCHANGED <<step, link, sent, image, action_data, outs, calls>>

\* step 2: action_data = await get_next_action_from_gemini(objective, pil_image)
SeqDecide ==
    /\ spc = "decide"
    /\ \E o \in OutcomeRuns :
        LET r == get_next_action_from_gemini(o) IN
        /\ action_data' = r.ret
        /\ calls' = r.calls
        /\ outs' = SubSeq(o, 1, r.calls)
    /\ spc' = "perform"
    /\ UNCHANGED <<sexit, step, link, sent, image>>

\* if not action_data or "action" not in action_data: break
SeqNoAction ==
    /\ spc = "perform" /\ ~action_data.has_action
    /\ spc' = "ended" /\ sexit' = "no_action"
    /\ UNCHANGED <<step, link, sent, image, action_data, outs, calls>>

\* if action == "done": break
SeqDone ==
    /\ spc = "perform" /\ action_data.has_action /\ action_data.action = "done"
    /\ spc' = "ended" /\ sexit' = "done"
    /\ UNCHANGED <<step, link, sent, image, action_data, outs, calls>>

\* step 3: perform_voiceover_action inside try/except, then the next step
SeqPerform ==
    /\ spc = "perform" /\ action_data.has_action /\ action_data.action # "done"
    /\ LET cmds == CommandsOf(action_data.action, action_data.text) IN
       \E ok \in Masks(Len(cmds)) : sent' = Delivered(cmds, ok)
    /\ step' = step + 1
    /\ spc' = "capture"
    /\ UNCHANGED <<sexit, link, image, action_data, outs, calls>>

\* the peripheral drops the connection
LinkDrop ==
    /\ spc \in {"capture", "decide", "perform"} /\ link
    /\ link' = FALSE
    /\ UNCHANGED <<spc, sexit, step, sent, image, action_data, outs, calls>>

NextSeq ==
    \/ (SeqConnect /\ UNCHANGED <<gvars, bvars, dvars, lvars, mvars>>)
    \/ (SeqCapture /\ UNCHANGED <<gvars, bvars, dvars, lvars, mvars>>)
    \/ (SeqLimit /\ UNCHANGED <<gvars, bvars, dvars, lvars, mvars>>)
    \/ (SeqDecide /\ UNCHANGED <<gvars, bvars, dvars, lvars, mvars>>)
    \/ (SeqNoAction /\ UNCHANGED <<gvars, bvars, dvars, lvars, mvars>>)
    \/ (SeqDone /\ UNCHANGED <<gvars, bvars, dvars, lvars, mvars>>)
    \/ (SeqPerform /\ UNCHANGED <<gvars, bvars, dvars, lvars, mvars>>)
    \/ (LinkDrop /\ UNCHANGED <<gvars, bvars, dvars, lvars, mvars>>)

(***************************************************************************)
(* raspi_controller/main.py: find_iphone_screen() and the step of main()   *)
(* that calls it.  A frame is its shape <<width, height>>; a contour is    *)
(* its area and its bounding rectangle <<x, y, w, h>>; an image cut from   *)
(* the frame is the pixel rectangle it covers.                             *)
(***************************************************************************)
None == << >>

\* min_area_ratio=0.10, as the rational <<n, d>>
min_area_ratio == <<1, 10>>
margin == 5

Max(a, b) == IF a >= b THEN a ELSE b
Min(a, b) == IF a <= b THEN a ELSE b

\* the frames the capture device delivers
Frames == {<<20, 10>>, <<16, 16>>, <<40, 30>>}

\* bounding rectangles of contours of a frame: all inside the frame
Rects(f) ==
    {r \in {<<x, y, w, h>> : x \in {0, 3}, y \in {0, 4},
                             w \in {2, f[1] \div 2, f[1]},
                             h \in {f[2] \div 2 + 1, f[2]}} :
        r[1] + r[3] <= f[1] /\ r[2] + r[4] <= f[2]}

\* areas of contours with bounding rectangle r: the rectangle through the
\* corner pixels, half of it, and the area that equals min_area exactly
Areas(f, r) ==
    LET full == (r[3] - 1) * (r[4] - 1)
        exact == (f[1] * f[2] * min_area_ratio[1]) \div min_area_ratio[2]
    IN  {full, full \div 2}
        \cup (IF exact * min_area_ratio[2] = f[1] * f[2] * min_area_ratio[1]
                 /\ exact <= full
              THEN {exact} ELSE {})

ContoursOf(f) ==
    UNION {{[area |-> a, rect |-> r] : a \in Areas(f, r)} : r \in Rects(f)}

\* what cv2.findContours can return for a frame
ContourLists(f) == UNION {[1..n -> ContoursOf(f)] : n \in 0..MaxContours}

\* LargestContour without the min_area test
RECURSIVE LargestContourAnySize(_, _, _, _, _)
LargestContourAnySize(contours, frame_area, i, largest, max_area) ==
    IF i > Len(contours) THEN largest
    ELSE IF contours[i].area > max_area
    THEN LargestContourAnySize(contours, frame_area, i + 1, i, contours[i].area)
    ELSE LargestContourAnySize(contours, frame_area, i + 1, largest, max_area)

\* LargestContour that keeps the first contour above min_area, without the
\* comparison against max_area
RECURSIVE LargestContourFirst(_, _, _, _, _)
LargestContourFirst(contours, frame_area, i, largest, max_area) ==
    IF i > Len(contours) THEN largest
    ELSE IF /\ contours[i].area * min_area_ratio[2] > frame_area * min_area_ratio[1]
            /\ largest = 0
    THEN LargestContourFirst(contours, frame_area, i + 1, i, contours[i].area)
    ELSE LargestContourFirst(contours, frame_area, i + 1, largest, max_area)

\* the loop over the contours from index i on: the index of largest_contour
\* (0 for None) with
\*     if area > min_area and area > max_area
\* where min_area = frame_area * min_area_ratio
RECURSIVE LargestContour(_, _, _, _, _)
LargestContour(contours, frame_area, i, largest, max_area) ==
    IF i > Len(contours) THEN largest
    ELSE IF /\ contours[i].area * min_area_ratio[2] > frame_area * min_area_ratio[1]
            /\ contours[i].area > max_area
    THEN LargestContour(contours, frame_area, i + 1, i, contours[i].area)
    ELSE LargestContour(contours, frame_area, i + 1, largest, max_area)

\* AddMargin without the clipping to the frame
AddMarginUnclipped(f, r) ==
    <<r[1] - margin, r[2] - margin, r[3] + 2 * margin, r[4] + 2 * margin>>

\* x = max(0, x - margin); y = max(0, y - margin)
\* w = min(frame.shape[1] - x, w + 2 * margin)
\* h = min(frame.shape[0] - y, h + 2 * margin)
AddMargin(f, r) ==
    LET x == Max(0, r[1] - margin)
        y == Max(0, r[2] - margin)
    IN  <<x, y, Min(f[1] - x, r[3] + 2 * margin), Min(f[2] - y, r[4] + 2 * margin)>>

\* find_iphone_screen(frame): <<cropped_frame, (x, y, w, h)>> or <<None, None>>
find_iphone_screen(f, contours) ==
    IF f = None THEN <<None, None>>
    ELSE IF contours = << >> THEN <<None, None>>
    ELSE LET k == LargestContour(contours, f[2] * f[1], 1, 0, 0) IN
         IF k # 0
         THEN LET r == AddMargin(f, contours[k].rect) IN <<r, r>>
         ELSE <<None, None>>

\* the whole frame as a pixel rectangle
FullFrame(f) == <<0, 0, f[1], f[2]>>

InitLocator ==
    /\ lpc = "capture"
    /\ lframe = None
    /\ lcontours = << >>
    /\ cropped_frame = None
    /\ lregion = None
    /\ pil_image = None

\* frame = capture_frame_from_device(); if frame is None: continue
LocCapture ==
    /\ lpc = "capture"
    /\ \E f \in Frames \cup {None} :
        \E cs \in (IF f = None THEN {<< >>} ELSE ContourLists(f)) :
            /\ lframe' = f
            /\ lcontours' = cs
            /\ lpc' = IF f = None THEN "capture" ELSE "locate"
    /\ UNCHANGED <<cropped_frame, lregion, pil_image>>

\* cropped_frame, _ = find_iphone_screen(frame)
Locate ==
    /\ lpc = "locate"
    /\ cropped_frame' = find_iphone_screen(lframe, lcontours)[1]
    /\ lregion' = find_iphone_screen(lframe, lcontours)[2]
    /\ lpc' = "handoff"
    /\ UNCHANGED <<lframe, lcontours, pil_image>>

\* if cropped_frame is None: the full frame is used, else the crop
Handoff ==
    /\ lpc = "handoff"
    /\ pil_image' = IF cropped_frame = None THEN FullFrame(lframe) ELSE cropped_frame
    /\ lpc' = "decide"
    /\ UNCHANGED <<lframe, lcontours, cropped_frame, lregion>>

\* steps 2 and 3 of the loop body, then the next step, which assigns every
\* local anew before it reads it
LocNextStep ==
    /\ lpc = "decide"
    /\ lpc' = "capture"
    /\ lframe' = None
    /\ lcontours' = << >>
    /\ cropped_frame' = None
    /\ lregion' = None
    /\ pil_image' = None

NextLocator ==
    \/ (LocCapture /\ UNCHANGED <<gvars, bvars, dvars, svars, mvars>>)
    \/ (Locate /\ UNCHANGED <<gvars, bvars, dvars, svars, mvars>>)
    \/ (Handoff /\ UNCHANGED <<gvars, bvars, dvars, svars, mvars>>)
    \/ (LocNextStep /\ UNCHANGED <<gvars, bvars, dvars, svars, mvars>>)

(***************************************************************************)
(* Coordinate Mapper: two composable pure mappings, normalized-in-region   *)
(* to region pixel and region pixel to destination units.                  *)
(***************************************************************************)
\* round(n/d), ties to the even neighbour
RoundHalfEven(n, d) ==
    LET q == n \div d
        r == n % d
    IN  IF 2 * r < d THEN q
        ELSE IF 2 * r > d THEN q + 1
        ELSE IF q % 2 = 0 THEN q ELSE q + 1

\* NormToPixel without the region offset
NormToPixelNoOffset(nx, offset, width) == RoundHalfEven(nx[1] * width, nx[2])

\* px = offsetX + round(nx * width)
NormToPixel(nx, offset, width) == offset + RoundHalfEven(nx[1] * width, nx[2])

\* dx = round(px / width * destWidth)
PixelToDest(px, width, destWidth) == RoundHalfEven(px * destWidth, width)

Points == {<<k, 4>> : k \in 0..4}
Regions ==
    {[x |-> 100, y |-> 50, w |-> 1000, h |-> 800],
     [x |-> 0, y |-> 0, w |-> 1920, h |-> 1080],
     [x |-> 0, y |-> 0, w |-> 280, h |-> 550]}
Dests == {<<280, 550>>, <<1920, 1080>>}

Request(nx, ny, region, dest) ==
    [nx |-> nx, ny |-> ny, region |-> region, dest |-> dest]

InitMapper ==
    /\ mpc = "idle"
    /\ mreq = Request(Zero, Zero, [x |-> 0, y |-> 0, w |-> 1920, h |-> 1080],
                      <<1920, 1080>>)
    /\ mpx = <<0, 0>>
    /\ mdest = <<0, 0>>

\* first mapping: normalized-in-region -> region pixel, per axis
MapToRegion ==
    /\ mpc \in {"idle", "dest"}
    /\ \E nx \in Points, ny \in Points, region \in Regions, dest \in Dests :
        /\ mreq' = Request(nx, ny, region, dest)
        /\ mpx' = <<NormToPixel(nx, region.x, region.w),
                    NormToPixel(ny, region.y, region.h)>>
    /\ mpc' = "pixel"
    /\ mdest' = <<0, 0>>

\* second mapping: region pixel -> destination units, per axis
MapToDest ==
    /\ mpc = "pixel"
    /\ mdest' = <<PixelToDest(mpx[1], mreq.region.w, mreq.dest[1]),
                  PixelToDest(mpx[2], mreq.region.h, mreq.dest[2])>>
    /\ mpc' = "dest"
    /\ UNCHANGED <<mreq, mpx>>

NextMapper ==
    \/ (MapToRegion /\ UNCHANGED <<gvars, bvars, dvars, svars, lvars>>)
    \/ (MapToDest /\ UNCHANGED <<gvars, bvars, dvars, svars, lvars>>)

(***************************************************************************)
(* Specifications, one per component.                                      *)
(***************************************************************************)
Init ==
    /\ InitGadget /\ InitBridge /\ InitDevice /\ InitSeq
    /\ InitLocator /\ InitMapper

SpecGadget == Init /\ [][NextGadget]_vars

SpecBridge == Init /\ [][NextBridge]_vars

SpecDevice == Init /\ [][NextDevice]_vars

SpecSeq == Init /\ [][NextSeq]_vars

SpecLocator == Init /\ [][NextLocator]_vars

SpecMapper == Init /\ [][NextMapper]_vars

(***************************************************************************)
(* Properties of the gadget agent (auto_ios_agent.py).                     *)
(***************************************************************************)
\* reports written to the touch stream since the current iteration started
CycleTouch == SubSeq(TOUCH, mark.touch + 1, Len(TOUCH))
CycleKbd == SubSeq(KBD, mark.kbd + 1, Len(KBD))

\* main() is between two actions: every tap(), swipe() called so far returned
ActionsReturned == gpc \in {"grab", "decide", "dispatch"} \/ gexit = "done"

IsLift(r) == r.kind = "lift" /\ r.bytes = <<0, 0, 0, 0>>

\* C1: whenever every action called so far has returned, each touch-down
\* report on the touch stream is followed on the stream by an all-zero
\* 4-byte lift report, and the last report on the stream is a lift.
C1_TouchLift ==
    ActionsReturned =>
        /\ \A i \in 1..Len(TOUCH) :
               TOUCH[i].kind = "down" =>
                   \E j \in (i + 1)..Len(TOUCH) : IsLift(TOUCH[j])
        /\ (TOUCH # << >> => IsLift(TOUCH[Len(TOUCH)]))

\* a swipe has returned in the second iteration, after an iteration that
\* also wrote touch reports
C1_Witness ==
    /\ gpc = "grab" /\ cyc = 2 /\ act.type = "swipe"
    /\ mark.touch > 0 /\ Len(TOUCH) > mark.touch

\* 0.5 + d
HalfPlus(d) == <<d[2] + 2 * d[1], 2 * d[2]>>

\* C2: a returned Swipe(dx,dy) has written steps touch-downs, consecutive
\* ones at different points when (dx,dy) is non-zero, the last one at
\* (0.5+dx, 0.5+dy), with no lift between them and exactly one lift after
\* the final step.
C2_SwipeInterpolated ==
    (gpc = "grab" /\ act.type = "swipe" /\ Len(TOUCH) > mark.touch) =>
        LET r == CycleTouch IN
        /\ Len(r) = steps + 1
        /\ \A k \in 1..steps : r[k].kind = "down"
        /\ IsLift(r[steps + 1])
        /\ r[steps] = DownReport(HalfPlus(act.dx), HalfPlus(act.dy))
        /\ (act.dx[1] # 0 \/ act.dy[1] # 0) =>
               \A k \in 2..steps : r[k] # r[k - 1]

\* clamp to [0, 1]
Clamp(x) == IF x[1] < 0 THEN <<0, 1>> ELSE IF x[1] > x[2] THEN <<1, 1>> ELSE x

\* C5: every touch-down report a Tap or DoubleTap writes carries the
\* encoding of the coordinates clamped to [0,1] (0 below 0, 32767 above 1).
C5_Clamped ==
    act.type \in {"tap", "doubleTap"} =>
        \A k \in 1..Len(CycleTouch) :
            CycleTouch[k].kind = "down" =>
                CycleTouch[k].bytes =
                    LE16(Scale(Clamp(act.x))) \o LE16(Scale(Clamp(act.y)))

\* C6 (state part): after Done the loop has ended and no report was written
\* in that iteration or later; in an iteration that decided None no report
\* is written.
C6_Inv ==
    /\ gexit = "done" =>
           gpc = "exit" /\ Len(TOUCH) = mark.touch /\ Len(KBD) = mark.kbd
    /\ (act.type = "none" /\ gpc \in {"dispatch", "grab"}) =>
           Len(TOUCH) = mark.touch /\ Len(KBD) = mark.kbd

\* C6: Done ends the loop and nothing is written to either stream after it;
\* None writes nothing in its iteration and the loop goes on to the next
\* capture.
C6_SequencerControl ==
    /\ []C6_Inv
    /\ [][(gpc = "dispatch" /\ act.type = "done") =>
              (gpc' = "exit" /\ gexit' = "done" /\ UNCHANGED <<TOUCH, KBD>>)]_vars
    /\ [][(gpc = "dispatch" /\ act.type = "none") =>
              (gpc' = "grab" /\ gexit' = "running" /\ UNCHANGED <<TOUCH, KBD>>)]_vars
    /\ [][gpc = "exit" => UNCHANGED <<TOUCH, KBD>>]_vars

\* Done was decided in the second iteration, after reports were written
C6_Witness == gexit = "done" /\ cyc = 2 /\ Len(TOUCH) + Len(KBD) > 0

\* C7: a malformed reply (no JSON, no extractable object) does not end the
\* loop.
C7_MalformedAdvances ==
    [][(gpc = "decide" /\ reply' = "malformed") => gpc' # "exit"]_vars

\* C9: when the frame source yields no frame nothing is written and the loop
\* goes on to a next capture; the session does not end.
C9_NoFrameTransient ==
    [][(gpc = "grab" /\ ~frame') =>
           (gpc' = "grab" /\ gexit' = "running" /\ UNCHANGED <<TOUCH, KBD>>)]_vars

\* C12: however main() ends, the capture device is released and both the
\* keyboard and the touch stream handles are closed.
C12_ReleasedOnExit ==
    gpc = "exit" => (~handles.cap /\ ~handles.kbd /\ ~handles.touch)

\* the characters the keyboard table has to cover
MappedChars ==
    {"a", "b", "c", "d", "e", "f", "g", "h", "i", "j", "k", "l", "m",
     "n", "o", "p", "q", "r", "s", "t", "u", "v", "w", "x", "y", "z",
     "0", "1", "2", "3", "4", "5", "6", "7", "8", "9",
     " ", "\n", ",", ".", "-", "/"}

\* C14 (as stated): every character of MappedChars has a keycode, and
\* send_key on any character outside MappedChars writes no report to the
\* keyboard stream and does not end the loop with an error.
C14_OtherCharsSilent ==
    /\ [](\A c \in MappedChars : KeyCodeOf(c) # 0)
    /\ [][(gpc = "key_down" /\ Head(text) \notin MappedChars) =>
              (KBD' = KBD /\ gpc' # "exit")]_vars

\* C14 (amended): every character of MappedChars has a keycode, and send_key
\* on any character whose lower-case form is outside MappedChars writes no
\* report to the keyboard stream and does not end the loop with an error.
C14_KeycodeComplete ==
    /\ [](\A c \in MappedChars : KeyCodeOf(c) # 0)
    /\ [][(gpc = "key_down" /\ Lower(Head(text)) \notin MappedChars) =>
              (KBD' = KBD /\ gpc' # "exit")]_vars

\* in the text "H!1" send_key("!") has returned without a report, after
\* send_key("H") wrote its two reports
C14_Witness ==
    /\ act.type = "type" /\ act.text = <<"H", "!", "1">>
    /\ gpc = "key_down" /\ text = <<"1">>
    /\ Len(KBD) = mark.kbd + 2

\* the reports the claim expects for a text: per mapped character a key-down
\* report with the keycode in the first keycode slot, then the key-up report
RECURSIVE ReportsFor(_)
ReportsFor(tx) ==
    IF tx = << >> THEN << >>
    ELSE (IF KeyCodeOf(Head(tx)) = 0 THEN << >>
          ELSE <<[kind |-> "press",
                  bytes |-> <<0, 0, KeyCodeOf(Head(tx)), 0, 0, 0, 0, 0>>],
                 [kind |-> "release", bytes |-> <<0, 0, 0, 0, 0, 0, 0, 0>>]>>)
         \o ReportsFor(Tail(tx))

\* C15: a type_text(text) that returned has written to the keyboard stream,
\* for each mapped character in text order, one 8-byte key-down report
\* (modifier 0, reserved 0, keycode, five zero slots) immediately followed by
\* one all-zero 8-byte key-up report, and nothing for unmapped characters;
\* while it runs it has written a prefix of that; no two key-down reports are
\* ever adjacent on the stream.
C15_KeyReports ==
    /\ (gpc = "grab" /\ act.type = "type") => CycleKbd = ReportsFor(act.text)
    /\ (gpc \in {"key_down", "key_up"}) =>
           /\ Len(CycleKbd) <= Len(ReportsFor(act.text))
           /\ CycleKbd = SubSeq(ReportsFor(act.text), 1, Len(CycleKbd))
    /\ \A i \in 1..Len(KBD) :
           /\ Len(KBD[i].bytes) = 8
           /\ (KBD[i].kind = "press" /\ i < Len(KBD)) =>
                  KBD[i + 1].bytes = <<0, 0, 0, 0, 0, 0, 0, 0>>
           /\ KBD[i].kind = "press" => KBD[i].bytes[3] # 0

\* type_text("aa") has returned: four reports for the repeated character
C15_Witness ==
    /\ gpc = "grab" /\ act.type = "type" /\ act.text = <<"a", "a">>
    /\ Len(CycleKbd) = 4 /\ CycleKbd[1] = CycleKbd[3]

\* x in [0, 1]
Normalized(x) == 0 <= x[1] /\ x[1] <= x[2]

\* the 16-bit value two little-endian bytes stand for
FromLE16(lo, hi) == lo + 256 * hi

\* the touch-down report tap(x, y) has just written
LastDown == TOUCH[Len(TOUCH)]

\* C18 (as stated): for normalized x and y the touch-down report of tap(x, y)
\* is 4 bytes, little-endian X then little-endian Y, where X is
\* round(x*32767) & 0x7FFF and Y likewise.
C18_ScaledRounded ==
    (gpc = "tap_lift" /\ Normalized(targ[1]) /\ Normalized(targ[2])) =>
        LET b == LastDown.bytes IN
        /\ Len(b) = 4 /\ \A k \in 1..4 : b[k] \in 0..255
        /\ FromLE16(b[1], b[2]) =
               RoundHalfEven(targ[1][1] * 32767, targ[1][2]) % 32768
        /\ FromLE16(b[3], b[4]) =
               RoundHalfEven(targ[2][1] * 32767, targ[2][2]) % 32768

\* C18 (amended): for normalized x and y the touch-down report of tap(x, y)
\* is 4 bytes, little-endian X then little-endian Y, where X is the integer
\* part of x*32767 (X <= x*32767 < X+1) and Y likewise.
C18_ScaledTruncated ==
    (gpc = "tap_lift" /\ Normalized(targ[1]) /\ Normalized(targ[2])) =>
        LET b == LastDown.bytes
            X == FromLE16(b[1], b[2])
            Y == FromLE16(b[3], b[4])
        IN  /\ Len(b) = 4 /\ \A k \in 1..4 : b[k] \in 0..255
            /\ X * targ[1][2] <= targ[1][1] * 32767
            /\ targ[1][1] * 32767 < (X + 1) * targ[1][2]
            /\ Y * targ[2][2] <= targ[2][1] * 32767
            /\ targ[2][1] * 32767 < (Y + 1) * targ[2][2]

\* tap(0.5, 1.0) has written its touch-down report: X = 16383, Y = 32767
C18_Witness ==
    /\ gpc = "tap_lift" /\ targ = <<<<1, 2>>, <<1, 1>>>>
    /\ LastDown.bytes = <<255, 63, 255, 127>>

\* C19: a Tap that returned has written exactly two reports to the touch
\* stream (touch-down, lift), a DoubleTap exactly four (down, lift, down,
\* lift, both downs equal), and neither writes to the keyboard stream; a
\* TypeText writes nothing to the touch stream.
C19_ReportCounts ==
    /\ (gpc = "grab" /\ act.type = "tap") =>
           /\ Len(CycleTouch) = 2
           /\ CycleTouch[1].kind = "down" /\ IsLift(CycleTouch[2])
    /\ (gpc = "grab" /\ act.type = "doubleTap") =>
           /\ Len(CycleTouch) = 4
           /\ CycleTouch[1].kind = "down" /\ IsLift(CycleTouch[2])
           /\ CycleTouch[3].kind = "down" /\ IsLift(CycleTouch[4])
           /\ CycleTouch[1] = CycleTouch[3]
    /\ act.type \in {"tap", "doubleTap"} => CycleKbd = << >>
    /\ act.type = "type" => CycleTouch = << >>

\* a DoubleTap has returned in the second iteration, after an iteration
\* that typed a text
C19_Witness ==
    /\ gpc = "grab" /\ act.type = "doubleTap" /\ cyc = 2
    /\ Len(CycleTouch) = 4 /\ mark.kbd > 0

(***************************************************************************)
(* Properties of the BLE test controller (test_hid.py).                    *)
(***************************************************************************)
RECURSIVE SumOf(_)
SumOf(cmds) ==
    IF cmds = << >> THEN <<0, 0>>
    ELSE LET r == SumOf(Tail(cmds)) IN <<Head(cmds)[1] + r[1], Head(cmds)[2] + r[2]>>

\* the commands that follow the leading origin-reset burst
RECURSIVE AfterReset(_)
AfterReset(cmds) ==
    IF cmds # << >> /\ Head(cmds)[1] < 0 /\ Head(cmds)[2] < 0
    THEN AfterReset(Tail(cmds))
    ELSE cmds

InRange(v) == -MAX_MOVE <= v /\ v <= MAX_MOVE

\* C3: every emitted m: command has both components within
\* [-MAX_MOVE, MAX_MOVE], and the commands emitted for a returned request
\* sum to the requested displacement.
C3_Chunked ==
    /\ \A i \in 1..Len(wire) : InRange(wire[i][1]) /\ InRange(wire[i][2])
    /\ (call.op = "move_relative" /\ call.ret = "returned") =>
           SumOf(call.wrote) = call.args
    /\ (call.op = "move_to_absolute" /\ call.ret = "returned") =>
           SumOf(AfterReset(call.wrote)) = call.args

\* the largest extent of a captured screen
ScreenExtent == 1920

\* C4: the commands a move_to_absolute(x,y) call has written are, in order
\* and with nothing between them on the wire, one origin reset that is
\* negative in both axes with magnitude at least the screen extent, then one
\* forward m: command equal to (x,y); a call that returned wrote both.
C4_ResetThenForward ==
    call.op = "move_to_absolute" =>
        LET w == call.wrote IN
        /\ Len(w) <= 2
        /\ Len(w) <= Len(wire)
        /\ SubSeq(wire, Len(wire) - Len(w) + 1, Len(wire)) = w
        /\ Len(w) >= 1 =>
               /\ w[1][1] < 0 /\ -w[1][1] >= ScreenExtent
               /\ w[1][2] < 0 /\ -w[1][2] >= ScreenExtent
        /\ Len(w) = 2 => w[2] = call.args
        /\ call.ret = "returned" => Len(w) = 2

\* move_to_absolute(280, 550) returned after an earlier move was sent
C4_Witness ==
    /\ call.op = "move_to_absolute" /\ call.ret = "returned"
    /\ call.args = <<280, 550>> /\ Len(wire) > 2 /\ pos = <<280, 550>>

\* main() of auto_ios_agent.py ended on an OSError of a stream write: a frame
\* was read, the reply parsed and no key of the action was missing
GadgetWriteFailed ==
    /\ gexit = "error" /\ frame /\ reply = "json"
    /\ ~(act.type \in {"tap", "doubleTap"} /\ ~act.keys)

\* C11: a transport write that fails in the middle of a session does not end
\* the session: after a move call of the BLE test controller raised, its key
\* loop is still running, and the gadget loop has not ended on a failed
\* stream write.
C11_WriteFailureSurvives ==
    /\ call.ret = "raised" => bpc = "loop"
    /\ ~GadgetWriteFailed

(***************************************************************************)
(* Properties of HIDDevice (bt_keyboard_emu.py).                           *)
(***************************************************************************)
Disconnected == ctrl_sock = "None" /\ intr_sock = "None"

\* C10: after a failed write or a peer drop the device is Disconnected (both
\* sockets None) and stays so until connect() is called; while it is
\* Disconnected no send operation transmits a report, and only connect()
\* takes it back to Connected.
C10_NoAutoReconnect ==
    /\ [](dropped => Disconnected)
    /\ [](last.result \in {"send_failed", "peer_dropped"} => Disconnected)
    /\ [][(Disconnected /\ last'.op # "connect") =>
              (Disconnected' /\ delivered' = delivered)]_vars

\* a send was attempted, and transmitted nothing, after the connection that
\* had delivered reports was dropped
C10_Witness ==
    /\ dropped /\ Len(delivered) > 0
    /\ last.op \in {"send_hid_report", "send_keypress", "send_string"}
    /\ last.result = "not_connected"

(***************************************************************************)
(* Properties of the GATT sequencer (main.py).                             *)
(***************************************************************************)
\* C8: when no attempt of get_next_action_from_gemini yields a JSON object
\* with "action", the call returns {"action": "wait", "params": {"seconds":
\* 2}} and the caller's loop is not stopped by it.
C8_SafeDefault ==
    (calls > 0 /\ \A k \in 1..Len(outs) : outs[k].kind # "valid") =>
        (action_data = DefaultAction /\ sexit # "no_action")

(***************************************************************************)
(* Properties of the Screen Locator (find_iphone_screen in main.py).       *)
(***************************************************************************)
\* find_iphone_screen has returned in this step
Located == lpc \in {"handoff", "decide"}

\* the frame has no contour, or its largest contour area is below
\* min_area_ratio x frame_area
NoScreenContour ==
    \/ lcontours = << >>
    \/ \A i \in 1..Len(lcontours) :
           lcontours[i].area * min_area_ratio[2]
               < lframe[1] * lframe[2] * min_area_ratio[1]

C17_RegionWithinFrame ==
    (Located /\ lregion # None) =>
        /\ Len(lregion) = 4
        /\ 0 <= lregion[1] /\ 0 <= lregion[2]
        /\ lregion[3] > 0 /\ lregion[4] > 0
        /\ lregion[1] + lregion[3] <= lframe[1]
        /\ lregion[2] + lregion[4] <= lframe[2]

\* the margin around the rectangle (3, 4, 10, 6) of a 20 x 10 frame was
\* clipped on all four sides
C17_Witness ==
    /\ Located /\ lframe = <<20, 10>>
    /\ \E i \in 1..Len(lcontours) : lcontours[i].rect = <<3, 4, 10, 6>>
    /\ lregion = <<0, 0, 20, 10>> /\ cropped_frame = lregion

(***************************************************************************)
(* Properties of the Coordinate Mapper.                                    *)
(***************************************************************************)
\* normalized (0.25, 0.75) in the 1000 x 800 region at offset (100, 50),
\* mapped to the 280 x 550 destination
EndToEndRequest ==
    Request(<<1, 4>>, <<3, 4>>, [x |-> 100, y |-> 50, w |-> 1000, h |-> 800],
            <<280, 550>>)

\* C20 (as stated): composing px = offsetX + round(nx*width) and
\* dx = round(px/width*destWidth) for that request yields the destination
\* pixel (70, 412).
C20_EndToEnd70_412 ==
    (mpc = "dest" /\ mreq = EndToEndRequest) => mdest = <<70, 412>>

\* C20 (amended): composing the two mappings for that request yields the
\* region pixel (350, 650) and the destination pixel (98, 447).
C20_EndToEnd ==
    /\ (mpc \in {"pixel", "dest"} /\ mreq = EndToEndRequest) => mpx = <<350, 650>>
    /\ (mpc = "dest" /\ mreq = EndToEndRequest) => mdest = <<98, 447>>

\* both mappings have been applied to that request
C20_Witness == mpc = "dest" /\ mreq = EndToEndRequest /\ mdest # <<0, 0>>

RECURSIVE TrackedFrom(_, _, _)
TrackedFrom(cmds, i, p) ==
    IF i > Len(cmds) THEN p
    ELSE IF cmds[i] = <<-ResetDistance, -ResetDistance>> /\ i < Len(cmds)
    THEN TrackedFrom(cmds, i + 2, cmds[i + 1])
    ELSE TrackedFrom(cmds, i + 1, <<p[1] + cmds[i][1], p[2] + cmds[i][2]>>)

\* C26: after any sequence of move_relative and move_to_absolute calls,
\* failed writes included, the tracked position (x, y) is the target of the
\* last move_to_absolute whose forward move was written ((0, 0) if none)
\* plus the sum of the displacements of the m: commands written since.
C26_TrackerConsistent == pos = TrackedFrom(wire, 1, <<0, 0>>)

\* the automation loop of main() was entered
LoopEntered == step > 0 \/ image # "none"

\* C27: for every sequence of frame outcomes and producer actions the
\* automation loop runs at most 30 cycles, cycles with a missing frame
\* included, and then stops; it stops earlier exactly when the action
\* "done" is returned or the returned data has no "action" key.
C27_BoundedSession ==
    /\ step <= StepLimit
    /\ (spc = "ended" /\ LoopEntered) =>
           \/ sexit = "limit" /\ step = StepLimit
           \/ sexit \in {"done", "no_action"} /\ step < StepLimit

\* C28: for every sequence of per-attempt outcomes the model is invoked at
\* most retry_count times, no attempt is made after the first one whose
\* reply parses to a JSON object with an "action" key, and that first valid
\* reply is the value returned.
C28_RetryBound ==
    /\ calls <= retry_count /\ Len(outs) = calls
    /\ \A k \in 1..Len(outs) :
           outs[k].kind = "valid" =>
               /\ k = Len(outs)
               /\ action_data = outs[k].json /\ action_data.has_action

\* the first reply did not parse, the second was valid and was returned
\* after two invocations
C28_Witness ==
    /\ spc = "perform" /\ calls = 2
    /\ outs[1].kind = "unparseable" /\ outs[2].kind = "valid"
    /\ action_data = ActionJson(TRUE, "next", "", 0)

(***************************************************************************)
(* Further properties of the Screen Locator.                               *)
(***************************************************************************)
\* the largest contour area of the frame (0 without contours)
RECURSIVE MaxAreaFrom(_)
MaxAreaFrom(i) ==
    IF i > Len(lcontours) THEN 0 ELSE Max(lcontours[i].area, MaxAreaFrom(i + 1))

\* area compared with min_area = min_area_ratio x frame_area
AtLeastMinArea(area) ==
    area * min_area_ratio[2] >= lframe[1] * lframe[2] * min_area_ratio[1]
AboveMinArea(area) ==
    area * min_area_ratio[2] > lframe[1] * lframe[2] * min_area_ratio[1]

\* the returned region is the margin-expanded bounding rectangle of a
\* contour of maximum area
RegionOfMaxContour ==
    /\ lregion # None
    /\ \E i \in 1..Len(lcontours) :
           /\ lcontours[i].area = MaxAreaFrom(1)
           /\ lregion = AddMargin(lframe, lcontours[i].rect)

\* C22 (as stated): whenever some contour area is not below
\* min_area_ratio x frame_area, the returned region is the margin-expanded
\* bounding rectangle of a contour of maximum area; no region is returned
\* only when the maximum contour area is strictly below that threshold.
C22_SelectedAtThreshold ==
    (Located /\ lcontours # << >>) =>
        /\ AtLeastMinArea(MaxAreaFrom(1)) => RegionOfMaxContour
        /\ lregion = None => ~AtLeastMinArea(MaxAreaFrom(1))

\* C22 (amended): whenever some contour area is strictly above
\* min_area_ratio x frame_area, the returned region is the margin-expanded
\* bounding rectangle of a contour of maximum area; no region is returned
\* exactly when the maximum contour area is at or below that threshold.
C22_SelectedAboveThreshold ==
    (Located /\ lcontours # << >>) =>
        /\ AboveMinArea(MaxAreaFrom(1)) => RegionOfMaxContour
        /\ lregion = None <=> ~AboveMinArea(MaxAreaFrom(1))

\* in a 40 x 30 frame the first contour has exactly the area min_area and
\* the second, larger one was selected
C22_Witness ==
    /\ Located /\ lframe = <<40, 30>> /\ Len(lcontours) = 2
    /\ lcontours[1].area = 120 /\ lcontours[1].rect = <<0, 0, 20, 16>>
    /\ lcontours[2].area > 120
    /\ lregion = AddMargin(lframe, lcontours[2].rect)
    /\ lregion # AddMargin(lframe, lcontours[1].rect)

\* the bounding rectangle of the contour that find_iphone_screen selected
SelectedRect ==
    lcontours[LargestContour(lcontours, lframe[2] * lframe[1], 1, 0, 0)].rect

\* C24: for a selected contour whose bounding rectangle (bx, by, bw, bh)
\* lies inside the frame, the returned region (x, y, w, h) contains the
\* rectangle (x <= bx, y <= by, x + w >= bx + bw, y + h >= by + bh) and
\* extends beyond it by at most 5 pixels on each of the four sides.
C24_MarginContainment ==
    (Located /\ lregion # None) =>
        LET b == SelectedRect
            r == lregion
        IN  /\ r[1] <= b[1] /\ r[2] <= b[2]
            /\ r[1] + r[3] >= b[1] + b[3]
            /\ r[2] + r[4] >= b[2] + b[4]
            /\ b[1] - r[1] <= margin
            /\ b[2] - r[2] <= margin
            /\ (r[1] + r[3]) - (b[1] + b[3]) <= margin
            /\ (r[2] + r[4]) - (b[2] + b[4]) <= margin

(***************************************************************************)
(* Further properties of the Bluetooth HID device (bt_keyboard_emu.py).    *)
(***************************************************************************)
\* a report with a modifier or a key down, and the all-zero release report
IsKeyPress(report) == report[3] # 0 \/ report[5] # 0
KeyRelease == KeypressReports(0, 0)[2]

\* every key press among reports is directly followed by a release
PressesReleased(reports) ==
    \A k \in 1..Len(reports) :
        IsKeyPress(reports[k]) =>
            (k < Len(reports) /\ reports[k + 1] = KeyRelease)

\* C23: in every run of send_string, with sends that may fail, each key-press
\* report delivered on the interrupt channel is followed by a delivered
\* all-zero release report before another press is delivered and before
\* the device becomes Disconnected: no key is left pressed on the host.
C23_PressReleasePaired ==
    [][(last'.op = "send_string") =>
          PressesReleased(SubSeq(delivered', Len(delivered) + 1, Len(delivered')))]_vars

\* C25: after any sequence of connect, disconnect, property_changed and
\* send operations, in which each L2CAP connect and each send may fail, the
\* control socket and the interrupt socket are both open or both None
\* whenever an operation has returned.
C25_SocketPair ==
    /\ ctrl_sock \in {"open", "None"} /\ intr_sock \in {"open", "None"}
    /\ (ctrl_sock = "None") <=> (intr_sock = "None")

\* a device that had delivered reports called connect() again, the
\* interrupt channel failed, and both sockets are None
C25_Witness ==
    /\ last.op = "connect" /\ last.result = "intr_fails"
    /\ delivered # << >>
    /\ ctrl_sock = "None" /\ intr_sock = "None"

(***************************************************************************)
(* The keycode tables of the gadget (auto_ios_agent.py) and of the         *)
(* Bluetooth keyboard (bt_keyboard_emu.py).                                *)
(***************************************************************************)
\* C29: for every character that both KEY_MAP (after send_key lower-cases
\* it) and KEYCODE map, the two tables give the same HID keycode, for each
\* digit 0-9 in particular: the key-down report that send_key writes for
\* such a character carries the keycode KEYCODE has for it.
C29_TablesAgree ==
    (gpc = "key_up" /\ Head(text) \in DOMAIN KEYCODE) =>
        /\ KeyCodeOf(Head(text)) = KEYCODE[Head(text)]
        /\ KBD[Len(KBD)].bytes[3] = KEYCODE[Head(text)]

====
